---- MODULE Spec2Model ----
(***************************************************************************)
(* Model of get_filtered_snapshots.py: the Azure snapshot finder.          *)
(*                                                                         *)
(* Text is modelled as a sequence of tokens (whitespace, an undecodable    *)
(* byte, a non-JSON chunk, a JSON document), a calendar timestamp as a     *)
(* record of its fields, and the console as the sequence of things the     *)
(* program handed to console.print.                                        *)
(***************************************************************************)
EXTENDS Integers, Sequences, FiniteSets, TLC

VARIABLES pc, today, default_start, default_end, start_input, end_input,
          start_date, end_date, subscriptions, idx, all_snapshots,
          console, inflight, issued, last_call, fetched

vars == <<pc, today, default_start, default_end, start_input, end_input,
          start_date, end_date, subscriptions, idx, all_snapshots,
          console, inflight, issued, last_call, fetched>>

(***************************************************************************)
(* Bounds of the model.                                                    *)
(***************************************************************************)
MaxSubs == 2
MaxSnaps == 2
MaxBytes == 2

(***************************************************************************)
(* Calendar arithmetic of datetime / timedelta.                            *)
(***************************************************************************)
IsLeap(y) == (y % 4 = 0) /\ ((y % 100 # 0) \/ (y % 400 = 0))

DaysInMonth(y, m) ==
  IF m = 2 THEN (IF IsLeap(y) THEN 29 ELSE 28)
  ELSE IF m \in {4, 6, 9, 11} THEN 30 ELSE 31

DaysBeforeYear(y) ==
  LET p == y - 1 IN 365 * p + (p \div 4) - (p \div 100) + (p \div 400)

RECURSIVE DaysBeforeMonth(_, _)
DaysBeforeMonth(y, m) ==
  IF m = 1 THEN 0 ELSE DaysBeforeMonth(y, m - 1) + DaysInMonth(y, m - 1)

ToOrdinal(y, m, d) == DaysBeforeYear(y) + DaysBeforeMonth(y, m) + d

YearSpan == 1990..2110

FromOrdinal(n) ==
  LET y == CHOOSE yy \in YearSpan :
             DaysBeforeYear(yy) < n /\ n <= DaysBeforeYear(yy + 1)
      r == n - DaysBeforeYear(y)
      m == CHOOSE mm \in 1..12 :
             DaysBeforeMonth(y, mm) < r
             /\ r <= DaysBeforeMonth(y, mm) + DaysInMonth(y, mm)
  IN  [year |-> y, month |-> m, day |-> r - DaysBeforeMonth(y, m)]

\* datetime + timedelta(days=n)
AddDays(dt, n) ==
  LET c == FromOrdinal(ToOrdinal(dt.year, dt.month, dt.day) + n)
  IN  [dt EXCEPT !.year = c.year, !.month = c.month, !.day = c.day]

\* datetime - timedelta(seconds=1)
SubSecond(dt) ==
  IF dt.second > 0 THEN [dt EXCEPT !.second = dt.second - 1]
  ELSE IF dt.minute > 0 THEN [dt EXCEPT !.minute = dt.minute - 1, !.second = 59]
  ELSE IF dt.hour > 0
       THEN [dt EXCEPT !.hour = dt.hour - 1, !.minute = 59, !.second = 59]
  ELSE [AddDays(dt, -1) EXCEPT !.hour = 23, !.minute = 59, !.second = 59]

\* datetime.isoformat() of a UTC-aware value: date, time, the fraction that is
\* written only when microsecond # 0, and the offset
isoformat(dt) ==
  [date |-> <<dt.year, dt.month, dt.day>>,
   time |-> <<dt.hour, dt.minute, dt.second>>,
   frac |-> dt.microsecond,
   offset |-> "+00:00"]

\* iso[:10], the text the prompts offer as default
DatePart(iso) == [kind |-> "ymd", y |-> iso.date[1], m |-> iso.date[2], d |-> iso.date[3]]

\* get_default_date_range stepping 30 days ahead instead of 32
get_default_date_range_30(now) ==
  LET start_of_month == [now EXCEPT !.day = 1, !.hour = 0, !.minute = 0,
                                    !.second = 0, !.microsecond = 0]
      end_of_month == SubSecond([AddDays(start_of_month, 30) EXCEPT !.day = 1])
  IN  <<isoformat(start_of_month), isoformat(end_of_month)>>

get_default_date_range(now) ==
  LET start_of_month == [now EXCEPT !.day = 1, !.hour = 0, !.minute = 0,
                                    !.second = 0, !.microsecond = 0]
      end_of_month == SubSecond([AddDays(start_of_month, 32) EXCEPT !.day = 1])
  IN  <<isoformat(start_of_month), isoformat(end_of_month)>>

\* datetime.strptime(text, "%Y-%m-%d") succeeds
StrptimeOk(text) ==
  /\ text.kind = "ymd"
  /\ text.y \in 1..9999
  /\ text.m \in 1..12
  /\ text.d \in 1..DaysInMonth(text.y, text.m)

\* the naive midnight value strptime returns
Strptime(text) ==
  [year |-> text.y, month |-> text.m, day |-> text.d,
   hour |-> 0, minute |-> 0, second |-> 0, microsecond |-> 0]

\* Prompt.ask(..., default=d): an empty answer gives the default
PromptAsk(answer, default) == IF answer.kind = "empty" THEN default ELSE answer

\* the validation with a fallback per field
ValidateDates_partial(s_in, e_in, d_start, d_end) ==
  [ok |-> StrptimeOk(s_in) /\ StrptimeOk(e_in),
   start |-> IF StrptimeOk(s_in) THEN isoformat(Strptime(s_in)) ELSE d_start,
   end |-> IF StrptimeOk(e_in)
           THEN isoformat([Strptime(e_in) EXCEPT !.hour = 23, !.minute = 59,
                                                 !.second = 59])
           ELSE d_end]

\* main, the try/except around the two strptime calls
ValidateDates(s_in, e_in, d_start, d_end) ==
  IF StrptimeOk(s_in) /\ StrptimeOk(e_in)
  THEN [ok |-> TRUE,
        start |-> isoformat(Strptime(s_in)),
        end |-> isoformat([Strptime(e_in) EXCEPT !.hour = 23, !.minute = 59,
                                                 !.second = 59])]
  ELSE [ok |-> FALSE, start |-> d_start, end |-> d_end]

(***************************************************************************)
(* Text: bytes and decoded text are sequences of tokens.                   *)
(***************************************************************************)
Ws == [t |-> "ws", v |-> <<>>]
Bad == [t |-> "bad", v |-> <<>>]
Junk == [t |-> "junk", v |-> <<>>]
NullDoc == [t |-> "null", v |-> <<>>]
ArrayDoc(list) == [t |-> "array", v |-> list]

\* all sequences of at most n elements of S
SeqsUpTo(S, n) == UNION {[1..k -> S] : k \in 0..n}

\* bytes.decode() raises UnicodeDecodeError on a byte that is not UTF-8
DecodeOk(bytes) == \A i \in 1..Len(bytes) : bytes[i].t # "bad"
Decode(bytes) == bytes

RECURSIVE LStrip(_)
LStrip(text) ==
  IF text # <<>> /\ Head(text).t = "ws" THEN LStrip(Tail(text)) ELSE text

RECURSIVE RStrip(_)
RStrip(text) ==
  IF text # <<>> /\ text[Len(text)].t = "ws"
  THEN RStrip(SubSeq(text, 1, Len(text) - 1)) ELSE text

\* str.strip()
Strip(text) == RStrip(LStrip(text))

(***************************************************************************)
(* Python values: None or a string; a parsed JSON value.                   *)
(***************************************************************************)
None == [none |-> TRUE, text |-> <<>>]
Str(text) == [none |-> FALSE, text |-> text]

\* truth value of `if result:`
Truthy(r) == ~r.none /\ r.text # <<>>

JsonList(list) == [isnull |-> FALSE, list |-> list]
JsonNull == [isnull |-> TRUE, list |-> <<>>]

\* json.loads: one JSON document, surrounding whitespace allowed; anything
\* else raises JSONDecodeError
JsonLoadsOk(text) ==
  LET t == Strip(text) IN Len(t) = 1 /\ t[1].t \in {"array", "null"}

JsonLoads(text) ==
  LET t == Strip(text)
  IN  IF t[1].t = "array" THEN JsonList(t[1].v) ELSE JsonNull

(***************************************************************************)
(* Console entries and commands.                                           *)
(***************************************************************************)
Line(kind, subject, text) ==
  [kind |-> kind, subject |-> subject, text |-> text, rows |-> <<>>, count |-> 0]

TableEntry(kind, subject, rows) ==
  [kind |-> kind, subject |-> subject, text |-> <<>>, rows |-> rows, count |-> 0]

CountEntry(n) ==
  [kind |-> "total", subject |-> "", text |-> <<>>, rows |-> <<>>, count |-> n]

NoIso == [date |-> <<0, 0, 0>>, time |-> <<0, 0, 0>>, frac |-> 0, offset |-> ""]

AccountListCommand ==
  [op |-> "az account list", subscription |-> "", start |-> NoIso, end |-> NoIso]

\* the snapshot query with the two bounds exchanged
SnapshotListCommand_swapped(subscription_id, start, end) ==
  [op |-> "az snapshot list", subscription |-> subscription_id,
   start |-> end, end |-> start]

SnapshotListCommand(subscription_id, start, end) ==
  [op |-> "az snapshot list", subscription |-> subscription_id,
   start |-> start, end |-> end]

(***************************************************************************)
(* Command Executor.  oc is what the child process did: raised (launch or  *)
(* communicate threw), returncode, stdout, stderr.                         *)
(***************************************************************************)
ExceptionLine == Line("An error occurred", "", <<>>)

\* run_az_command returning the decoded output untrimmed
run_az_command_untrimmed(command, oc) ==
  IF oc.raised
  THEN [result |-> None, printed |-> <<ExceptionLine>>]
  ELSE IF oc.returncode = 0
  THEN IF DecodeOk(oc.stdout)
       THEN [result |-> Str(Decode(oc.stdout)), printed |-> <<>>]
       ELSE [result |-> None, printed |-> <<ExceptionLine>>]
  ELSE IF DecodeOk(oc.stderr)
       THEN [result |-> None,
             printed |-> <<Line("Error running command", command.op, <<>>),
                           Line("Error message", "", Strip(Decode(oc.stderr)))>>]
       ELSE [result |-> None,
             printed |-> <<Line("Error running command", command.op, <<>>),
                           ExceptionLine>>]

run_az_command(command, oc) ==
  IF oc.raised
  THEN [result |-> None, printed |-> <<ExceptionLine>>]
  ELSE IF oc.returncode = 0
  THEN IF DecodeOk(oc.stdout)
       THEN [result |-> Str(Strip(Decode(oc.stdout))), printed |-> <<>>]
       ELSE [result |-> None, printed |-> <<ExceptionLine>>]
  ELSE IF DecodeOk(oc.stderr)
       THEN [result |-> None,
             printed |-> <<Line("Error running command", command.op, <<>>),
                           Line("Error message", "", Strip(Decode(oc.stderr)))>>]
       ELSE [result |-> None,
             printed |-> <<Line("Error running command", command.op, <<>>),
                           ExceptionLine>>]

(***************************************************************************)
(* Data Retriever.  A return is [raised, value, printed]: raised when      *)
(* json.loads threw out of the function.                                   *)
(***************************************************************************)
\* get_subscriptions with the `if result:` guard dropped: json.loads(None)
get_subscriptions_unguarded(oc) ==
  LET r == run_az_command(AccountListCommand, oc) IN
  IF ~r.result.none /\ JsonLoadsOk(r.result.text)
  THEN [raised |-> FALSE, value |-> JsonLoads(r.result.text), printed |-> r.printed]
  ELSE [raised |-> TRUE, value |-> JsonNull, printed |-> r.printed]

get_subscriptions(oc) ==
  LET r == run_az_command(AccountListCommand, oc) IN
  IF Truthy(r.result)
  THEN IF JsonLoadsOk(r.result.text)
       THEN [raised |-> FALSE, value |-> JsonLoads(r.result.text),
             printed |-> r.printed]
       ELSE [raised |-> TRUE, value |-> JsonNull, printed |-> r.printed]
  ELSE [raised |-> FALSE, value |-> JsonList(<<>>), printed |-> r.printed]

\* get_snapshots with the `if result:` guard dropped: json.loads(None)
get_snapshots_unguarded(subscription_id, start, end, oc) ==
  LET r == run_az_command(SnapshotListCommand(subscription_id, start, end), oc) IN
  IF ~r.result.none /\ JsonLoadsOk(r.result.text)
  THEN [raised |-> FALSE, value |-> JsonLoads(r.result.text), printed |-> r.printed]
  ELSE [raised |-> TRUE, value |-> JsonNull, printed |-> r.printed]

get_snapshots(subscription_id, start, end, oc) ==
  LET r == run_az_command(SnapshotListCommand(subscription_id, start, end), oc) IN
  IF Truthy(r.result)
  THEN IF JsonLoadsOk(r.result.text)
       THEN [raised |-> FALSE, value |-> JsonLoads(r.result.text),
             printed |-> r.printed]
       ELSE [raised |-> TRUE, value |-> JsonNull, printed |-> r.printed]
  ELSE [raised |-> FALSE, value |-> JsonList(<<>>), printed |-> r.printed]

(***************************************************************************)
(* Report Renderer.                                                        *)
(***************************************************************************)
\* the per-subscription row testing createdBy against None only
DisplayRow_none_only(snapshot) ==
  [name |-> snapshot.name,
   resourceGroup |-> snapshot.resourceGroup,
   timeCreated |-> snapshot.timeCreated,
   size |-> snapshot.diskSizeGb,
   state |-> snapshot.diskState,
   createdBy |-> IF ~snapshot.createdBy.isnull
                 THEN snapshot.createdBy.str ELSE "N/A"]

\* one row of the per-subscription table
DisplayRow(snapshot) ==
  [name |-> snapshot.name,
   resourceGroup |-> snapshot.resourceGroup,
   timeCreated |-> snapshot.timeCreated,
   size |-> snapshot.diskSizeGb,
   state |-> snapshot.diskState,
   createdBy |-> IF ~snapshot.createdBy.isnull /\ snapshot.createdBy.str # ""
                 THEN snapshot.createdBy.str ELSE "N/A"]

\* display_snapshots without the early return for an empty result
display_snapshots_always_table(snapshots, subscription_name) ==
  <<TableEntry("Snapshots in", subscription_name,
               [i \in 1..Len(snapshots.list) |-> DisplayRow(snapshots.list[i])])>>

\* what display_snapshots prints; snapshots is a parsed JSON value
display_snapshots(snapshots, subscription_name) ==
  IF snapshots.isnull \/ snapshots.list = <<>>
  THEN <<Line("No snapshots found", subscription_name, <<>>)>>
  ELSE <<TableEntry("Snapshots in", subscription_name,
                    [i \in 1..Len(snapshots.list) |-> DisplayRow(snapshots.list[i])])>>

\* the summary row passing the raw diskState through
SummaryRow_passthrough(snapshot) ==
  [name |-> snapshot.name,
   timeCreated |-> snapshot.timeCreated,
   status |-> snapshot.diskState,
   createdBy |-> IF ~snapshot.createdBy.isnull /\ snapshot.createdBy.str # ""
                 THEN snapshot.createdBy.str ELSE "N/A"]

\* one row of the summary table
SummaryRow(snapshot) ==
  [name |-> snapshot.name,
   timeCreated |-> snapshot.timeCreated,
   status |-> IF snapshot.diskState = "Attached" THEN "Attached" ELSE "Unattached",
   createdBy |-> IF ~snapshot.createdBy.isnull /\ snapshot.createdBy.str # ""
                 THEN snapshot.createdBy.str ELSE "N/A"]

SummaryRows(snapshots) == [i \in 1..Len(snapshots) |-> SummaryRow(snapshots[i])]

(***************************************************************************)
(* State of one run of main.                                               *)
(***************************************************************************)
NoTime == [year |-> 0, month |-> 0, day |-> 0, hour |-> 0, minute |-> 0,
           second |-> 0, microsecond |-> 0]
NoInput == [kind |-> "unset", y |-> 0, m |-> 0, d |-> 0]
NoOutcome == [raised |-> FALSE, returncode |-> 0, stdout |-> <<>>, stderr |-> <<>>]

NoCall ==
  [state |-> "none", command |-> AccountListCommand, oc |-> NoOutcome,
   result |-> None, raised |-> FALSE, value |-> JsonNull]

Pending(command) == [NoCall EXCEPT !.state = "pending", !.command = command]

Done(command, oc, r, ret) ==
  [state |-> "done", command |-> command, oc |-> oc, result |-> r.result,
   raised |-> ret.raised, value |-> ret.value]

\* the test of line 92 written as `subscriptions is None`
NoSubscriptions_none_only(value) == value.isnull

\* line 92, `if not subscriptions:`
NoSubscriptions(value) == value.isnull \/ value.list = <<>>

Init ==
  /\ pc = "prompt"
  /\ today = NoTime
  /\ default_start = NoIso
  /\ default_end = NoIso
  /\ start_input = NoInput
  /\ end_input = NoInput
  /\ start_date = NoInput
  /\ end_date = NoInput
  /\ subscriptions = JsonNull
  /\ idx = 0
  /\ all_snapshots = <<>>
  /\ console = <<>>
  /\ inflight = {}
  /\ issued = <<>>
  /\ last_call = NoCall
  /\ fetched = <<>>

(***************************************************************************)
(* main, one action per stretch of code between two waits.                 *)
(***************************************************************************)
\* lines 74-79: welcome, default range, the two prompts
Prompt(clock, starts, ends) ==
  /\ pc = "prompt"
  /\ \E now \in clock, a \in starts, b \in ends :
       LET range == get_default_date_range(now) IN
       /\ today' = now
       /\ default_start' = range[1]
       /\ default_end' = range[2]
       /\ start_input' = a
       /\ end_input' = b
       /\ start_date' = PromptAsk(a, DatePart(range[1]))
       /\ end_date' = PromptAsk(b, DatePart(range[2]))
  /\ console' = Append(console, Line("Welcome", "", <<>>))
  /\ pc' = "validate"
  /\ UNCHANGED <<subscriptions, idx, all_snapshots, inflight, issued, last_call, fetched>>

\* lines 82-89
Validate ==
  /\ pc = "validate"
  /\ LET v == ValidateDates(start_date, end_date, default_start, default_end) IN
       /\ start_date' = v.start
       /\ end_date' = v.end
       /\ console' = IF v.ok THEN console
                     ELSE Append(console, Line("Invalid date format", "", <<>>))
  /\ pc' = "enumerate"
  /\ UNCHANGED <<today, default_start, default_end, start_input, end_input,
                 subscriptions, idx, all_snapshots, inflight, issued, last_call,
                 fetched>>

\* line 91, the call: the child process is started
IssueListSubscriptions ==
  /\ pc = "enumerate"
  /\ inflight' = inflight \cup {AccountListCommand}
  /\ issued' = Append(issued, AccountListCommand)
  /\ last_call' = Pending(AccountListCommand)
  /\ pc' = "await_subscriptions"
  /\ UNCHANGED <<today, default_start, default_end, start_input, end_input,
                 start_date, end_date, subscriptions, idx, all_snapshots, console,
                 fetched>>

\* lines 91-96, the child process has ended
CompleteListSubscriptions(outcomes) ==
  /\ pc = "await_subscriptions"
  /\ \E oc \in outcomes :
       LET r == run_az_command(AccountListCommand, oc)
           ret == get_subscriptions(oc)
       IN
       /\ last_call' = Done(AccountListCommand, oc, r, ret)
       /\ inflight' = inflight \ {AccountListCommand}
       /\ IF ret.raised
          THEN /\ pc' = "crashed"
               /\ console' = console \o ret.printed
               /\ UNCHANGED <<subscriptions, idx, all_snapshots>>
          ELSE /\ subscriptions' = ret.value
               /\ IF NoSubscriptions(ret.value)
                  THEN /\ console' = (console \o ret.printed)
                                       \o <<Line("No subscriptions found", "", <<>>)>>
                       /\ pc' = "no_subscriptions"
                       /\ UNCHANGED <<idx, all_snapshots>>
                  ELSE /\ console' = console \o ret.printed
                       /\ all_snapshots' = <<>>
                       /\ idx' = 1
                       /\ pc' = "fetch"
  /\ UNCHANGED <<today, default_start, default_end, start_input, end_input,
                 start_date, end_date, issued, fetched>>

\* lines 98-100: section header, then the child process is started
IssueGetSnapshots ==
  /\ pc = "fetch"
  /\ idx <= Len(subscriptions.list)
  /\ LET subscription == subscriptions.list[idx]
         command == SnapshotListCommand(subscription.id, start_date, end_date)
     IN
       /\ console' = Append(console, Line("Searching in subscription",
                                          subscription.name, <<>>))
       /\ inflight' = inflight \cup {command}
       /\ issued' = Append(issued, command)
       /\ last_call' = Pending(command)
  /\ pc' = "await_snapshots"
  /\ UNCHANGED <<today, default_start, default_end, start_input, end_input,
                 start_date, end_date, subscriptions, idx, all_snapshots, fetched>>

\* lines 100-102: the child process has ended, table, extend
CompleteGetSnapshots(outcomes) ==
  /\ pc = "await_snapshots"
  /\ \E oc \in outcomes :
       LET subscription == subscriptions.list[idx]
           command == SnapshotListCommand(subscription.id, start_date, end_date)
           r == run_az_command(command, oc)
           ret == get_snapshots(subscription.id, start_date, end_date, oc)
       IN
       /\ last_call' = Done(command, oc, r, ret)
       /\ inflight' = inflight \ {command}
       /\ IF ret.raised
          THEN /\ pc' = "crashed"
               /\ console' = console \o ret.printed
               /\ UNCHANGED <<idx, all_snapshots, fetched>>
          ELSE /\ fetched' = Append(fetched, ret.value.list)
               /\ console' = (console \o ret.printed)
                               \o display_snapshots(ret.value, subscription.name)
               /\ IF ret.value.isnull
                  THEN \* all_snapshots.extend(None) raises TypeError
                       /\ pc' = "crashed"
                       /\ UNCHANGED <<idx, all_snapshots>>
                  ELSE /\ all_snapshots' = all_snapshots \o ret.value.list
                       /\ idx' = idx + 1
                       /\ pc' = "fetch"
  /\ UNCHANGED <<today, default_start, default_end, start_input, end_input,
                 start_date, end_date, subscriptions, issued>>

\* lines 104-123
Summary ==
  /\ pc = "fetch"
  /\ idx > Len(subscriptions.list)
  /\ console' = console \o <<TableEntry("Snapshot Summary", "", SummaryRows(all_snapshots)),
                             CountEntry(Len(all_snapshots)),
                             Line("Snapshot search complete", "", <<>>)>>
  /\ pc' = "summary_printed"
  /\ UNCHANGED <<today, default_start, default_end, start_input, end_input,
                 start_date, end_date, subscriptions, idx, all_snapshots,
                 inflight, issued, last_call, fetched>>

(***************************************************************************)
(* What the environment can supply: the clock, the user's answers, the     *)
(* records az lists and what a child process does.                         *)
(***************************************************************************)
At(y, m, d, hh, mm, ss, us) ==
  [year |-> y, month |-> m, day |-> d, hour |-> hh, minute |-> mm,
   second |-> ss, microsecond |-> us]

Ymd(y, m, d) == [kind |-> "ymd", y |-> y, m |-> m, d |-> d]
EmptyAnswer == [kind |-> "empty", y |-> 0, m |-> 0, d |-> 0]
NotADate == [kind |-> "not-a-date", y |-> 0, m |-> 0, d |-> 0]

SubA == [name |-> "A", id |-> "id-A"]
SubB == [name |-> "B", id |-> "id-B"]
SubC == [name |-> "C", id |-> "id-C"]

StrVal(s) == [isnull |-> FALSE, str |-> s]
NullVal == [isnull |-> TRUE, str |-> ""]

Snap1 ==
  [name |-> "snap1", resourceGroup |-> "rg1", timeCreated |-> "t1",
   diskSizeGb |-> 128, id |-> "sid1", diskState |-> "Attached",
   createdBy |-> StrVal("vm1")]
Snap2 ==
  [name |-> "snap2", resourceGroup |-> "rg1", timeCreated |-> "t2",
   diskSizeGb |-> 64, id |-> "sid2", diskState |-> "Unattached",
   createdBy |-> NullVal]
Snap3 ==
  [name |-> "snap3", resourceGroup |-> "rg2", timeCreated |-> "t3",
   diskSizeGb |-> 32, id |-> "sid3", diskState |-> "Reserved",
   createdBy |-> StrVal("")]

\* az lists a subscription or a snapshot once: the sequences without repeats
ListingsUpTo(S, n) ==
  {l \in SeqsUpTo(S, n) : \A i, j \in 1..Len(l) : i # j => l[i] # l[j]}

SubscriptionLists == ListingsUpTo({SubA, SubB, SubC}, MaxSubs)
SnapshotLists == ListingsUpTo({Snap1, Snap2, Snap3}, MaxSnaps)

Raised == [raised |-> TRUE, returncode |-> 0, stdout |-> <<>>, stderr |-> <<>>]
Exited(code, out, err) ==
  [raised |-> FALSE, returncode |-> code, stdout |-> out, stderr |-> err]

\* the outcomes of a listing command in a run of main: az answers with the
\* array and a newline, or fails in one of the ways below
Outcomes(lists) ==
  {Raised, Exited(1, <<>>, <<Junk, Ws>>)}
  \cup {Exited(0, out, <<>>) : out \in {<<>>, <<Junk>>, <<Bad>>, <<NullDoc>>}}
  \cup {Exited(0, <<ArrayDoc(l), Ws>>, <<>>) : l \in lists}

Clock == {At(2023, 12, 31, 23, 59, 59, 500000)}
StartAnswers == {Ymd(2024, 2, 15), NotADate}
EndAnswers == {EmptyAnswer, Ymd(2024, 2, 20), Ymd(2023, 2, 29)}

Next ==
  \/ Prompt(Clock, StartAnswers, EndAnswers)
  \/ Validate
  \/ IssueListSubscriptions
  \/ CompleteListSubscriptions(Outcomes(SubscriptionLists))
  \/ IssueGetSnapshots
  \/ CompleteGetSnapshots(Outcomes(SnapshotLists))
  \/ Summary

Spec == Init /\ [][Next]_vars

(***************************************************************************)
(* The Command Executor and the Data Retriever over every child-process    *)
(* outcome of at most MaxBytes tokens per stream.                          *)
(***************************************************************************)
ExitCodes == {0, 1, 2}

AllOutcomes(docs) ==
  {Raised} \cup
  {Exited(c, out, err) :
     c \in ExitCodes,
     out \in SeqsUpTo({Ws, Bad, Junk, NullDoc} \cup docs, MaxBytes),
     err \in SeqsUpTo({Ws, Bad, Junk}, MaxBytes)}

NextExec ==
  \/ Prompt({At(2024, 2, 10, 12, 34, 56, 500000)}, {EmptyAnswer}, {EmptyAnswer})
  \/ Validate
  \/ IssueListSubscriptions
  \/ CompleteListSubscriptions(AllOutcomes({ArrayDoc(<<>>), ArrayDoc(<<SubA>>)}))
  \/ IssueGetSnapshots
  \/ CompleteGetSnapshots(AllOutcomes({ArrayDoc(<<>>), ArrayDoc(<<Snap3>>)}))
  \/ Summary

SpecExec == Init /\ [][NextExec]_vars

(***************************************************************************)
(* The date stages over every month of a leap year, a common year and a    *)
(* century year, and over well-formed and ill-formed answers.              *)
(***************************************************************************)
AllClock ==
  {At(2024, m, 1, 0, 0, 0, 0) : m \in 1..12}
  \cup {At(y, m, 28, 23, 59, 59, 999999) : y \in {2023, 2100}, m \in 1..12}
  \cup {At(2024, 2, 29, 8, 0, 0, 1), At(2023, 12, 31, 23, 59, 59, 999999),
        At(2024, 1, 31, 0, 0, 0, 0)}

AllAnswers ==
  {EmptyAnswer, NotADate, Ymd(2024, 12, 31), Ymd(2024, 4, 31)}
  \cup {Ymd(y, m, d) : y \in {2023, 2024}, m \in {2, 13}, d \in {0, 29, 30}}

NextDates ==
  \/ Prompt(AllClock, AllAnswers, AllAnswers)
  \/ Validate

SpecDates == Init /\ [][NextDates]_vars

(***************************************************************************)
(* Properties.                                                             *)
(***************************************************************************)
\* what the step that ends a command appended to the console
NewLines == SubSeq(console', Len(console) + 1, Len(console'))

CommandEnds == last_call.state = "pending" /\ last_call'.state = "done"

Decodable(bytes) == \A i \in 1..Len(bytes) : bytes[i].t # "bad"

ErrorKinds == {"Error running command", "Error message", "An error occurred"}

\* C1 as stated: every command that exits 0 returns its trimmed standard
\* output, every command that exits non-zero returns None and has its
\* standard-error text printed as an error.
C1_AsStated ==
  [][CommandEnds /\ ~last_call'.oc.raised =>
       IF last_call'.oc.returncode = 0
       THEN last_call'.result = Str(Strip(last_call'.oc.stdout))
       ELSE /\ last_call'.result = None
            /\ \E i \in 1..Len(NewLines) :
                 /\ NewLines[i].kind = "Error message"
                 /\ NewLines[i].text = Strip(last_call'.oc.stderr)]_vars

\* C1 amended: a command that exits 0 with decodable standard output returns
\* exactly that output trimmed and prints no error; one that exits 0 with
\* undecodable output returns None after the generic exception line; one that
\* exits non-zero returns None after the failing-command line, followed by
\* the trimmed standard-error text when it decodes and by the generic
\* exception line when it does not.
C1_Executor ==
  [][CommandEnds /\ ~last_call'.oc.raised =>
       LET oc == last_call'.oc
           result == last_call'.result
       IN
       IF oc.returncode = 0
       THEN IF Decodable(oc.stdout)
            THEN /\ result = Str(Strip(oc.stdout))
                 /\ \A i \in 1..Len(NewLines) : NewLines[i].kind \notin ErrorKinds
            ELSE /\ result = None
                 /\ Len(NewLines) >= 1
                 /\ NewLines[1].kind = "An error occurred"
       ELSE /\ result = None
            /\ Len(NewLines) >= 2
            /\ NewLines[1].kind = "Error running command"
            /\ NewLines[1].subject = last_call'.command.op
            /\ IF Decodable(oc.stderr)
               THEN /\ NewLines[2].kind = "Error message"
                    /\ NewLines[2].text = Strip(oc.stderr)
               ELSE NewLines[2].kind = "An error occurred"]_vars

\* a command exited 0 with whitespace around its output and the caller got
\* the output without it
C1_Witness ==
  /\ last_call.state = "done"
  /\ ~last_call.oc.raised
  /\ last_call.oc.returncode = 0
  /\ Len(last_call.oc.stdout) = 2
  /\ last_call.oc.stdout[1].t = "ws"
  /\ last_call.oc.stdout[2].t = "array"
  /\ ~last_call.result.none
  /\ Len(last_call.result.text) = 1

\* C2: whenever run_az_command returned None, the retriever returned the
\* empty list (not None, no exception) and main went on as for zero results.
C2_EmptyOnNone ==
  last_call.state = "done" /\ last_call.result.none =>
    /\ ~last_call.raised
    /\ ~last_call.value.isnull
    /\ last_call.value.list = <<>>
    /\ pc # "crashed"
    /\ last_call.command.op = "az account list" => pc = "no_subscriptions"
    /\ last_call.command.op = "az snapshot list" =>
         /\ fetched[Len(fetched)] = <<>>
         /\ \E i \in 1..Len(console) : console[i].kind = "No snapshots found"

\* the snapshot query could not be launched and the run went on
C2_Witness ==
  /\ last_call.state = "done"
  /\ last_call.oc.raised
  /\ last_call.result.none
  /\ last_call.command.op = "az snapshot list"
  /\ pc = "fetch"

(***************************************************************************)
(* Views of the console and of the commands issued.                        *)
(***************************************************************************)
IsSection(e) == e.kind \in {"Snapshots in", "No snapshots found"}
IsSummaryTable(e) == e.kind = "Snapshot Summary"
IsTotal(e) == e.kind = "total"
IsSnapshotCommand(c) == c.op = "az snapshot list"

Sections == SelectSeq(console, IsSection)
SummaryTables == SelectSeq(console, IsSummaryTable)
Totals == SelectSeq(console, IsTotal)
SnapshotCommands == SelectSeq(issued, IsSnapshotCommand)

RECURSIVE Flatten(_)
Flatten(lists) ==
  IF lists = <<>> THEN <<>> ELSE Head(lists) \o Flatten(Tail(lists))

RECURSIVE SumLen(_)
SumLen(lists) ==
  IF lists = <<>> THEN 0 ELSE Len(Head(lists)) + SumLen(Tail(lists))

Midnight(y, m, d) ==
  [date |-> <<y, m, d>>, time |-> <<0, 0, 0>>, frac |-> 0, offset |-> "+00:00"]
LastSecond(y, m, d) ==
  [date |-> <<y, m, d>>, time |-> <<23, 59, 59>>, frac |-> 0, offset |-> "+00:00"]

LastDayOfMonth(y, m) ==
  CASE m \in {1, 3, 5, 7, 8, 10, 12} -> 31
    [] m \in {4, 6, 9, 11} -> 30
    [] OTHER -> IF y % 400 = 0 \/ (y % 4 = 0 /\ y % 100 # 0) THEN 29 ELSE 28

\* the text a prompt handed to the validation: the answer, or the date part
\* of the default when the answer was empty
Entered(answer, default) ==
  IF answer.kind = "empty"
  THEN Ymd(default.date[1], default.date[2], default.date[3])
  ELSE answer

IsCalendarDate(a) ==
  a.kind = "ymd" /\ a.m \in 1..12 /\ a.d >= 1 /\ a.d <= LastDayOfMonth(a.y, a.m)

\* C3: when both entered dates are calendar dates the range is the start
\* date at 00:00:00+00:00 and the end date at 23:59:59+00:00; when either is
\* not, both bounds are the default range; every snapshot query carries
\* that range.
C3_DateValidation ==
  pc \notin {"prompt", "validate"} =>
    LET s == Entered(start_input, default_start)
        e == Entered(end_input, default_end)
    IN
    /\ IF IsCalendarDate(s) /\ IsCalendarDate(e)
       THEN /\ start_date = Midnight(s.y, s.m, s.d)
            /\ end_date = LastSecond(e.y, e.m, e.d)
       ELSE /\ start_date = default_start
            /\ end_date = default_end
    /\ \A i \in 1..Len(SnapshotCommands) :
         /\ SnapshotCommands[i].start = start_date
         /\ SnapshotCommands[i].end = end_date

\* a query went out after a valid start and an invalid end were entered
C3_Witness ==
  /\ Len(SnapshotCommands) >= 1
  /\ start_input = Ymd(2024, 2, 15)
  /\ end_input = Ymd(2023, 2, 29)
  /\ SnapshotCommands[1].start = default_start

\* C4: at the summary, the summary table has one row per snapshot returned
\* by the per-subscription queries, in discovery order, the total is the sum
\* of the result lengths, and a subscription with no snapshots has the
\* 'No snapshots found' line for section and no table.
C4_Aggregation ==
  pc = "summary_printed" =>
    LET flat == Flatten(fetched) IN
    /\ Len(fetched) = Len(subscriptions.list)
    /\ Len(SummaryTables) = 1
    /\ Len(SummaryTables[1].rows) = Len(flat)
    /\ \A k \in 1..Len(flat) :
         /\ SummaryTables[1].rows[k].name = flat[k].name
         /\ SummaryTables[1].rows[k].timeCreated = flat[k].timeCreated
    /\ Len(Totals) = 1
    /\ Totals[1].count = SumLen(fetched)
    /\ Len(Sections) = Len(fetched)
    /\ \A i \in 1..Len(fetched) :
         /\ Sections[i].subject = subscriptions.list[i].name
         /\ IF fetched[i] = <<>>
            THEN Sections[i].kind = "No snapshots found"
            ELSE /\ Sections[i].kind = "Snapshots in"
                 /\ Len(Sections[i].rows) = Len(fetched[i])

\* two subscriptions, the first with two snapshots and the second with none
C4_Witness ==
  /\ pc = "summary_printed"
  /\ Len(fetched) = 2
  /\ Len(fetched[1]) = 2
  /\ fetched[2] = <<>>
  /\ Totals[1].count = 2

\* C5: when get_subscriptions returned the empty sequence, main has printed
\* the 'No subscriptions found' error and stopped: no snapshot command is
\* issued and neither the summary table nor the total is printed.
C5_NoSubscriptions ==
  (/\ last_call.state = "done"
   /\ last_call.command.op = "az account list"
   /\ ~last_call.raised
   /\ ~last_call.value.isnull
   /\ last_call.value.list = <<>>)
  =>
  /\ pc = "no_subscriptions"
  /\ console[Len(console)].kind = "No subscriptions found"
  /\ SnapshotCommands = <<>>
  /\ inflight = {}
  /\ SummaryTables = <<>>
  /\ Totals = <<>>

\* the subscription listing exited non-zero and the run stopped
C5_Witness ==
  /\ pc = "no_subscriptions"
  /\ last_call.state = "done"
  /\ ~last_call.oc.raised
  /\ last_call.oc.returncode = 1

\* C6: in the summary table the Status of a snapshot is "Attached" when its
\* diskState is "Attached" and "Unattached" for every other diskState.
C6_Status ==
  pc = "summary_printed" =>
    LET flat == Flatten(fetched) IN
    /\ Len(SummaryTables[1].rows) = Len(flat)
    /\ \A k \in 1..Len(flat) :
         /\ flat[k].diskState = "Attached" =>
              SummaryTables[1].rows[k].status = "Attached"
         /\ flat[k].diskState # "Attached" =>
              SummaryTables[1].rows[k].status = "Unattached"

\* a snapshot in state "Reserved" is in the summary as "Unattached"
C6_Witness ==
  /\ pc = "summary_printed"
  /\ \E k \in 1..Len(Flatten(fetched)) :
       /\ Flatten(fetched)[k].diskState = "Reserved"
       /\ SummaryTables[1].rows[k].status = "Unattached"

CreatedByCell(v) == IF v.isnull \/ v.str = "" THEN "N/A" ELSE v.str

\* C7: the Created By cell is "N/A" for a null or empty createdBy and the
\* value itself otherwise, in the per-subscription table and in the summary
\* table alike.
C7_CreatedBy ==
  /\ \A i \in 1..Len(Sections) :
       Sections[i].kind = "Snapshots in" =>
         /\ Len(Sections[i].rows) = Len(fetched[i])
         /\ \A k \in 1..Len(fetched[i]) :
              Sections[i].rows[k].createdBy = CreatedByCell(fetched[i][k].createdBy)
  /\ pc = "summary_printed" =>
       LET flat == Flatten(fetched)
           cells == Flatten([i \in 1..Len(Sections) |->
                      [k \in 1..Len(Sections[i].rows) |-> Sections[i].rows[k].createdBy]])
       IN
       /\ Len(SummaryTables[1].rows) = Len(flat)
       /\ Len(cells) = Len(flat)
       /\ \A k \in 1..Len(flat) :
            /\ SummaryTables[1].rows[k].createdBy = CreatedByCell(flat[k].createdBy)
            /\ SummaryTables[1].rows[k].createdBy = cells[k]

\* the summary holds a snapshot with a null createdBy and one with an empty one
C7_Witness ==
  /\ pc = "summary_printed"
  /\ \E j, k \in 1..Len(Flatten(fetched)) :
       /\ Flatten(fetched)[j].createdBy.isnull
       /\ ~Flatten(fetched)[k].createdBy.isnull
       /\ Flatten(fetched)[k].createdBy.str = ""
       /\ SummaryTables[1].rows[j].createdBy = "N/A"
       /\ SummaryTables[1].rows[k].createdBy = "N/A"

Terminal == {"no_subscriptions", "summary_printed", "crashed"}

StageOf(p) ==
  CASE p = "prompt" -> 1
    [] p = "validate" -> 2
    [] p \in {"enumerate", "await_subscriptions", "no_subscriptions"} -> 3
    [] p \in {"fetch", "await_snapshots"} -> 4
    [] OTHER -> 5

\* the command that just ended exited 0 with decodable output that is
\* neither blank nor one JSON array (a null from the subscription listing is
\* taken as no subscriptions)
Unparseable(call) ==
  /\ ~call.oc.raised
  /\ call.oc.returncode = 0
  /\ Decodable(call.oc.stdout)
  /\ LET t == Strip(call.oc.stdout) IN
       /\ t # <<>>
       /\ ~(Len(t) = 1 /\ t[1].t = "array")
       /\ ~(Len(t) = 1 /\ t[1].t = "null" /\ call.command.op = "az account list")

C9_AsStated ==
  pc \in {"summary_printed", "crashed"} /\ ~NoSubscriptions(subscriptions) =>
    Len(SnapshotCommands) = Len(subscriptions.list)

\* C9 amended: at most one command is in flight; the commands issued are the
\* subscription listing followed by the snapshot queries of a prefix of the
\* listed subscriptions, in listing order, one each, all with the validated
\* bounds, and of all of them once the summary is printed; a command is
\* issued only when none is in flight and every earlier subscription has its
\* section on the console.
C9_Sequential ==
  /\ [](/\ Cardinality(inflight) <= 1
        /\ \A c \in inflight : issued # <<>> /\ c = issued[Len(issued)]
        /\ Len(SnapshotCommands) <= Len(subscriptions.list)
        /\ Len(issued) = Len(SnapshotCommands) + (IF pc \in {"prompt", "validate", "enumerate"} THEN 0 ELSE 1)
        /\ \A i \in 1..Len(SnapshotCommands) :
             /\ issued[i + 1] = SnapshotCommands[i]
             /\ SnapshotCommands[i].subscription = subscriptions.list[i].id
             /\ SnapshotCommands[i].start = start_date
             /\ SnapshotCommands[i].end = end_date
        /\ pc = "summary_printed" => Len(SnapshotCommands) = Len(subscriptions.list))
  /\ [][issued' # issued =>
          /\ inflight = {}
          /\ Len(issued') = Len(issued) + 1
          /\ Len(Sections) = Len(SnapshotCommands)
          /\ \A i \in 1..Len(Sections) :
               Sections[i].subject = subscriptions.list[i].name]_vars

\* the second subscription's query is in flight and the first one's section
\* is on the console
C9_Witness ==
  /\ pc = "await_snapshots"
  /\ idx = 2
  /\ Len(SnapshotCommands) = 2
  /\ Len(Sections) = 1
  /\ inflight = {SnapshotCommands[2]}

\* C10: the default range starts at 00:00:00 on day 1 of the current UTC
\* month and ends at 23:59:59 on the last day of that month, and accepting
\* both defaults validates to that same range without a warning.
C10_DefaultRange ==
  pc # "prompt" =>
    /\ default_start = Midnight(today.year, today.month, 1)
    /\ default_end = LastSecond(today.year, today.month,
                                LastDayOfMonth(today.year, today.month))
    /\ (pc = "enumerate" /\ start_input.kind = "empty" /\ end_input.kind = "empty") =>
         /\ start_date = default_start
         /\ end_date = default_end
         /\ \A i \in 1..Len(console) : console[i].kind # "Invalid date format"

\* both defaults accepted on a day in December
C10_Witness ==
  /\ pc = "enumerate"
  /\ start_input.kind = "empty"
  /\ end_input.kind = "empty"
  /\ today.month = 12
  /\ end_date.date = <<today.year, 12, 31>>

====
